---- MODULE Spec2Model ----
(***************************************************************************)
(* Model of the video decomposition and streaming analysis pipeline:       *)
(*   - the Pipeline Coordinator, POST /api/process                         *)
(*     (src/app/api/process/route.ts), with its two adapters and the       *)
(*     ReadableStream it writes its events to;                             *)
(*   - the client pipeline, handleSubmit with the Audio Extractor and the  *)
(*     Frame Sampler (src/app/page.tsx).                                   *)
(* One behaviour is one run: the client decomposes one video and posts the *)
(* payload, or some other caller posts a body directly.                    *)
(***************************************************************************)
EXTENDS Integers, Sequences, FiniteSets, TLC

\* ---------------------------------------------------------------- bounds
\* The short frame lists callers post have at most this many frames.
MaxFewFrames == 3
\* The consumer of the event stream lags by at most this many events when
\* the coordinator resumes after an await.
MaxQueue == 1
\* The ticks a second of media time is divided into.
TicksPerSecond == 2
\* The classifier's outcome varies (accept, fail, odd answers) on the first
\* MaxFewFrames frames and on the MaxVaried frames on either side of the
\* cap; on the frames between it answers NO.
MaxVaried == 1
\* The longest frame list a caller posts has FrameCap + OverFrames frames.
OverFrames == 5
\* The completed runs whose response body is read classified at most this
\* many frames.
MaxStreamFrames == 1

\* ------------------------------------------------------- program constants
\* route.ts:97   Math.min(frames.length, 20)
FrameCap == 20
\* page.tsx:97   const captureInterval = 5
captureInterval == 5

Min(a, b) == IF a < b THEN a ELSE b

\* ------------------------------------------------------------ the events
NoData == [transcription |-> <<>>, slides |-> <<>>]

ProgressEvent(text, index, total) ==
    [type |-> "progress", message |-> <<text>>, index |-> index, total |-> total,
     data |-> NoData]

ErrorEvent(message) ==
    [type |-> "error", message |-> <<message>>, index |-> 0, total |-> 0,
     data |-> NoData]

CompleteEvent(t, s) ==
    [type |-> "complete", message |-> <<>>, index |-> 0, total |-> 0,
     data |-> [transcription |-> t, slides |-> s]]

\* ------------------------------------------------- the ReadableStream
\* The stream of route.ts:78 with its default controller, as the Streams
\* standard defines it: state, close-requested flag, chunk queue, and whether
\* the consumer has a read request pending.
NewStream ==
    [state |-> "readable", closeRequested |-> FALSE, queue |-> <<>>,
     readPending |-> FALSE, delivered |-> <<>>]

CanCloseOrEnqueue(c) == c.state = "readable" /\ ~c.closeRequested

\* controller.enqueue(chunk) on a controller that accepts it: a pending read
\* request takes the chunk, otherwise it is queued.
ControllerEnqueue(c, ev) ==
    IF c.readPending
    THEN [c EXCEPT !.readPending = FALSE, !.delivered = Append(@, ev)]
    ELSE [c EXCEPT !.queue = Append(@, ev)]

\* controller.close() on a controller that accepts it: the stream closes at
\* once when the queue is empty, otherwise when the queue has drained.
ControllerClose(c) ==
    IF c.queue = <<>>
    THEN [c EXCEPT !.closeRequested = TRUE, !.state = "closed", !.readPending = FALSE]
    ELSE [c EXCEPT !.closeRequested = TRUE]

\* The promise of start() rejected: the controller errors the stream, which
\* drops the queued chunks, unless the stream is no longer readable.
ControllerError(c) ==
    IF c.state # "readable"
    THEN c
    ELSE [c EXCEPT !.state = "errored", !.queue = <<>>, !.readPending = FALSE]

InvalidState == "Invalid state: Controller is already closed"

\* The consumer cancels a readable stream: the stream closes, a pending read
\* ends and the queued chunks are dropped. The underlying source of
\* route.ts:78 has no cancel method, so start() is not told.
StreamCancel(c) ==
    IF c.state # "readable"
    THEN c
    ELSE [c EXCEPT !.state = "closed", !.queue = <<>>, !.readPending = FALSE]

\* ------------------------------------------------------------- the request
\* A frame as the client serialises it (interface VideoFrame).
VideoFrame(k) == [timestamp |-> captureInterval * (k - 1), dataUrl |-> k]

\* frames: [{timestamp, dataUrl}]; nullAt names an element that is null
\* instead of an object (0: none).
FramesOf(n) == [present |-> TRUE, items |-> [k \in 1..n |-> VideoFrame(k)]]
NoFrames == [present |-> FALSE, items |-> <<>>]

AudioUrl == "data:audio/webm;base64,QUJD"
AudioValues == {"", "garbage", AudioUrl}

\* What a caller may post: a body that is not JSON, a body without one of
\* the two fields, a body with an empty audio string, a frame list with a
\* null element, a short frame list, a frame list at and over the cap.
DirectBodies ==
    {[json |-> FALSE, jsonError |-> m, audio |-> [present |-> FALSE, value |-> ""],
      frames |-> NoFrames, nullAt |-> 0] : m \in {"Unexpected end of JSON input", ""}}
    \cup
    {[json |-> TRUE, jsonError |-> "", audio |-> [present |-> FALSE, value |-> ""],
      frames |-> f, nullAt |-> 0] : f \in {NoFrames, FramesOf(1)}}
    \cup
    {[json |-> TRUE, jsonError |-> "", audio |-> [present |-> TRUE, value |-> a],
      frames |-> NoFrames, nullAt |-> 0] : a \in AudioValues}
    \cup
    {[json |-> TRUE, jsonError |-> "", audio |-> [present |-> TRUE, value |-> a],
      frames |-> FramesOf(n), nullAt |-> 0] : a \in AudioValues, n \in 0..MaxFewFrames}
    \cup
    {[json |-> TRUE, jsonError |-> "", audio |-> [present |-> TRUE, value |-> AudioUrl],
      frames |-> FramesOf(n), nullAt |-> 0] : n \in {FrameCap, FrameCap + 1, FrameCap + OverFrames}}
    \cup
    {[json |-> TRUE, jsonError |-> "", audio |-> [present |-> TRUE, value |-> AudioUrl],
      frames |-> FramesOf(p[1]), nullAt |-> p[2]] :
        p \in {q \in (1..MaxFewFrames) \X (1..MaxFewFrames) : q[2] <= q[1]}}

\* JavaScript truthiness of the two destructured fields (route.ts:84).
Truthy(field) == field.present /\ field.value # ""
FramesTruthy(f) == f.present

\* ------------------------------------------------------------ the adapters
\* What the wrapped speech-to-text call can do: return a text, or fail with
\* a reason.
TranscriptionOutcomes ==
    {[ok |-> TRUE, text |-> "hello world"], [ok |-> FALSE, text |-> "Connection error."]}

\* A sentinel that drops the reason.
SentinelWithoutReason(reason) == <<"[Transcription unavailable: ", "", "]">>

\* route.ts:34   `[Transcription unavailable: ${error.message}]`
Sentinel(reason) == <<"[Transcription unavailable: ", reason, "]">>

\* route.ts:19   audioDataUrl.split(',')[1] is undefined without a comma, and
\* Buffer.from(undefined) throws inside the try block.
HasBase64Part(url) == url = AudioUrl

\* The error the try block of transcribeAudio (route.ts:12-31) ends with for
\* the given outcome of the wrapped call: none, or its message.
TranscribeError(audioDataUrl, outcome) ==
    IF ~HasBase64Part(audioDataUrl)
    THEN <<"The first argument must be of type string">>
    ELSE IF outcome.ok THEN <<>> ELSE <<outcome.text>>

\* transcribeAudio (route.ts:11-36): the text, or the sentinel on any failure.
transcribeAudio(audioDataUrl, outcome) ==
    LET e == TranscribeError(audioDataUrl, outcome)
    IN  IF e = <<>> THEN <<outcome.text>> ELSE Sentinel(e[1])

\* What the wrapped vision call can do: answer with some content, answer
\* without content, or fail.
AnswerContents == {"YES", "yes", " Yes ", "NO", "YES.", "", "Maybe"}
ClassifierOutcomes ==
    {[ok |-> TRUE, hasContent |-> TRUE, content |-> a] : a \in AnswerContents}
    \cup {[ok |-> TRUE, hasContent |-> FALSE, content |-> ""],
          [ok |-> FALSE, hasContent |-> FALSE, content |-> ""]}

\* route.ts:67   content?.trim().toUpperCase(), on the answers above.
TrimUpper(a) ==
    CASE a \in {"YES", "yes", " Yes "} -> "YES"
      [] a = "NO" -> "NO"
      [] a = "YES." -> "YES."
      [] a = "Maybe" -> "MAYBE"
      [] OTHER -> ""

\* A catch clause that accepts the frame.
analyzeFrameFailOpen(frameDataUrl, outcome) ==
    IF ~outcome.ok THEN TRUE
    ELSE IF ~outcome.hasContent THEN FALSE
    ELSE TrimUpper(outcome.content) = "YES"

\* analyzeFrame (route.ts:38-73): true only for the exact answer YES, false
\* for any other answer, for no answer and for a failed call.
analyzeFrame(frameDataUrl, outcome) ==
    IF ~outcome.ok THEN FALSE
    ELSE IF ~outcome.hasContent THEN FALSE
    ELSE TrimUpper(outcome.content) = "YES"

\* The outcomes of the call for the frame at index idx.
Varied(idx) ==
    idx < MaxFewFrames \/ (FrameCap - MaxVaried <= idx /\ idx < FrameCap + MaxVaried)
ClassifierOutcomesAt(idx) ==
    IF Varied(idx) THEN ClassifierOutcomes
    ELSE {[ok |-> TRUE, hasContent |-> TRUE, content |-> "NO"]}

\* ------------------------------------------------------------------ state
VARIABLES
    pcPOST,          \* where start() of route.ts:79 stands: idle, parse,
                     \* transcribe, classify, done
    body,            \* the request body
    controller,      \* the stream of route.ts:78 and what its consumer received
    emitted,         \* the events enqueue accepted, in order
    closeCalls,      \* how often controller.close() was called
    startRejected,   \* start() ended with an exception escaping it
    transcription,   \* route.ts:91
    slides,          \* route.ts:95
    i,               \* route.ts:97
    transcribeCalls, \* how often transcribeAudio was called
    transcribeFailure,\* the reason the speech-to-text call failed with, if it did
    classifyCalls,   \* the frame indices passed to analyzeFrame, in order
    classifyResults, \* per returned call: index, verdict, whether it failed
    cancelInfo       \* where the run stood when its consumer cancelled the
                     \* stream (stage none: it has not), and the classifier
                     \* calls made by then

serverVars == <<pcPOST, body, controller, emitted, closeCalls, startRejected,
                transcription, slides, i, transcribeCalls, transcribeFailure,
                classifyCalls, classifyResults, cancelInfo>>

VARIABLES
    pcSubmit,        \* where handleSubmit of page.tsx:135 stands: idle, audio,
                     \* frames, fetch, finished
    processing,      \* page.tsx:12
    error,           \* page.tsx:15
    reason,          \* the message of the error a promise was rejected with
    duration,        \* video.duration of the chosen file
    audioPromise,    \* the promise of extractAudioFromVideo: none, pending,
                     \* resolved, rejected
    pcAudio,         \* where the extractor stands: none, loading, starting,
                     \* armed, failed
    recorderState,   \* mediaRecorder.state; none before it is constructed
    audioVideo,      \* the extractor's video element: idle, playing, paused, ended
    endedQueued,     \* the element's ended event is queued, not yet dispatched
    timerArmed,      \* the timeout of page.tsx:66 is pending
    stopQueued,      \* the recorder's dataavailable and stop events are queued
    readerBusy,      \* the FileReader of page.tsx:52 is reading
    stopCalls,       \* how often mediaRecorder.stop() was called
    stopEffects,     \* how often a call stopped a recording
    stopErrors,      \* how often a call raised InvalidStateError
    payloads,        \* how often the extractor resolved with an audio payload
    framesPromise,   \* the promise of extractFramesFromVideo
    pcFrames,        \* where the sampler stands: none, loading, seeking,
                     \* resolved, failed
    currentTime,     \* page.tsx:103
    frames,          \* page.tsx:96
    seeks,           \* the targets assigned to video.currentTime, in order
    sent,            \* the events of the response body handleSubmit reads
    wire,            \* the characters of the body not yet read
    result,          \* page.tsx: the result state, <<>> while null
    progress         \* page.tsx: the progress state

clientVars == <<pcSubmit, processing, error, reason, duration, audioPromise, pcAudio,
                recorderState, audioVideo, endedQueued, timerArmed, stopQueued,
                readerBusy, stopCalls, stopEffects, stopErrors, payloads,
                framesPromise, pcFrames, currentTime, frames, seeks,
                sent, wire, result, progress>>

audioVars == <<pcAudio, recorderState, audioVideo, endedQueued, timerArmed,
               stopQueued, readerBusy, stopCalls, stopEffects, stopErrors, payloads>>

samplerVars == <<pcFrames, currentTime, frames, seeks>>

readerVars == <<sent, wire, result, progress>>

vars == <<serverVars, clientVars>>

\* ------------------------------------------- one synchronous stretch of start()
\* The statements start() runs between two awaits, as a list of operations
\* on the controller; an exception ends the list.
EnqueueOp(ev) == [op |-> "enqueue", ev |-> ev]
CloseOp == [op |-> "close", ev |-> ErrorEvent("")]
ThrowOp(message) == [op |-> "throw", ev |-> ErrorEvent(message)]

NoError == <<>>

\* An enqueue wrapped so that its exception is swallowed.
ExecSwallowingEnqueue(r, o) ==
    IF r.thrown # NoError THEN r
    ELSE CASE o.op = "enqueue" ->
                IF CanCloseOrEnqueue(r.c)
                THEN [r EXCEPT !.c = ControllerEnqueue(r.c, o.ev),
                               !.emitted = Append(@, o.ev)]
                ELSE r
           [] o.op = "close" ->
                IF CanCloseOrEnqueue(r.c)
                THEN [r EXCEPT !.c = ControllerClose(r.c), !.closeCalls = @ + 1]
                ELSE [r EXCEPT !.closeCalls = @ + 1, !.thrown = <<InvalidState>>]
           [] OTHER -> [r EXCEPT !.thrown = o.ev.message]

\* One operation of a stretch: enqueue and close throw a TypeError on a
\* controller that no longer accepts them (route.ts:85-126).
Exec(r, o) ==
    IF r.thrown # NoError THEN r
    ELSE CASE o.op = "enqueue" ->
                IF CanCloseOrEnqueue(r.c)
                THEN [r EXCEPT !.c = ControllerEnqueue(r.c, o.ev),
                               !.emitted = Append(@, o.ev)]
                ELSE [r EXCEPT !.thrown = <<InvalidState>>]
           [] o.op = "close" ->
                IF CanCloseOrEnqueue(r.c)
                THEN [r EXCEPT !.c = ControllerClose(r.c), !.closeCalls = @ + 1]
                ELSE [r EXCEPT !.closeCalls = @ + 1, !.thrown = <<InvalidState>>]
           [] OTHER -> [r EXCEPT !.thrown = o.ev.message]

RECURSIVE ExecAll(_, _)
ExecAll(r, ops) ==
    IF ops = <<>> THEN r ELSE ExecAll(Exec(r, Head(ops)), Tail(ops))

\* route.ts:123   error.message || 'Processing failed'
MessageOr(m) == IF m = "" THEN "Processing failed" ELSE m

\* A catch-all that only logs.
CatchOpsSilent(thrown) == <<>>

\* route.ts:119-124: the catch-all emits one error event.
CatchOps(thrown) == <<EnqueueOp(ErrorEvent(MessageOr(thrown[1])))>>

\* A try statement without the finally clause.
FinallyOpsMissing == <<>>

\* route.ts:125-127: the finally clause closes the stream.
FinallyOps == <<CloseOp>>

\* The try statement of route.ts:80-127 left with r: the catch clause runs
\* when the try block threw, the finally clause runs in every case, and what
\* is still thrown after it rejects the promise of start(), which errors a
\* stream that is still readable.
Settle(r) ==
    LET caught == IF r.thrown # NoError
                  THEN ExecAll([r EXCEPT !.thrown = NoError], CatchOps(r.thrown))
                  ELSE r
        closed == ExecAll([caught EXCEPT !.thrown = NoError], FinallyOps)
        thrown == IF closed.thrown # NoError THEN closed.thrown ELSE caught.thrown
    IN  [closed EXCEPT !.thrown = thrown,
                       !.c = IF thrown # NoError THEN ControllerError(@) ELSE @]

\* start() resumes, runs ops and then either waits at the await `next` or,
\* when the stretch threw or left the try block (ends), settles.
Resume(ops, ends, next) ==
    LET r0 == [c |-> controller, emitted |-> emitted, closeCalls |-> closeCalls,
               thrown |-> NoError]
        r1 == ExecAll(r0, ops)
        over == ends \/ r1.thrown # NoError
        r2 == IF over THEN Settle(r1) ELSE r1
    IN  /\ controller' = r2.c
        /\ emitted' = r2.emitted
        /\ closeCalls' = r2.closeCalls
        /\ startRejected' = (r2.thrown # NoError)
        /\ pcPOST' = IF over THEN "done" ELSE next

\* A check of the audio field alone.
MissingInputAudioOnly(b) == ~Truthy(b.audio)

\* route.ts:84   !audioDataUrl || !frames
MissingInput(b) == ~Truthy(b.audio) \/ ~FramesTruthy(b.frames)

\* A loop bound without the cap.
FrameTotalUncapped(n) == n

\* A cap that lets one frame too many through.
FrameTotalOffByOne(n) == Min(n, FrameCap + 1)

\* route.ts:97   Math.min(frames.length, 20)
FrameTotal(n) == Min(n, FrameCap)

\* A loop whose progress event names the frame by its zero-based index.
LoopOpsZeroBased(b, idx, t, sl) ==
    IF idx < FrameTotal(Len(b.frames.items))
    THEN <<EnqueueOp(ProgressEvent("Analyzing frame", idx,
                                   FrameTotal(Len(b.frames.items))))>>
         \o (IF b.nullAt = idx + 1
             THEN <<ThrowOp("Cannot read properties of null (reading 'dataUrl')")>>
             ELSE <<>>)
    ELSE <<EnqueueOp(CompleteEvent(t, sl))>>

\* route.ts:97-117 from the loop test with i = idx: either the progress event
\* of frame idx and the read of frame.dataUrl (which throws on a null frame)
\* before the next await, or the complete event after the loop.
LoopOps(b, idx, t, sl) ==
    IF idx < FrameTotal(Len(b.frames.items))
    THEN <<EnqueueOp(ProgressEvent("Analyzing frame", idx + 1,
                                   FrameTotal(Len(b.frames.items))))>>
         \o (IF b.nullAt = idx + 1
             THEN <<ThrowOp("Cannot read properties of null (reading 'dataUrl')")>>
             ELSE <<>>)
    ELSE <<EnqueueOp(CompleteEvent(t, sl))>>

\* A loop test against the submitted length alone.
LoopEndsUncapped(b, idx) == ~(idx < Len(b.frames.items))

\* route.ts:97   the loop test i < Math.min(frames.length, 20) fails
LoopEnds(b, idx) == ~(idx < FrameTotal(Len(b.frames.items)))

\* A slide stamped with the first frame's time.
SlideOfUnstamped(frame) == [image |-> frame.dataUrl, timestamp |-> 0]

\* route.ts:104-107
SlideOf(frame) == [image |-> frame.dataUrl, timestamp |-> frame.timestamp]

\* The consumer keeps up with the coordinator to within MaxQueue events.
ConsumerKeepsUp == Len(controller.queue) <= MaxQueue

\* ---------------------------------------------------------------- actions
\* A request arrives: POST builds the stream, start() runs up to the await
\* of request.json() (route.ts:75-81) and the response is returned.
Post(b) ==
    /\ pcPOST = "idle"
    /\ pcPOST' = "parse"
    /\ body' = b
    /\ controller' = NewStream
    /\ UNCHANGED <<emitted, closeCalls, startRejected, transcription, slides, i,
                   transcribeCalls, transcribeFailure, classifyCalls, classifyResults,
                   cancelInfo>>

\* A caller posts a body to /api/process.
DirectPost ==
    /\ pcSubmit = "idle"
    /\ \E b \in DirectBodies : Post(b)
    /\ UNCHANGED clientVars

\* request.json() settles (route.ts:81-91): a body that is not JSON throws
\* into the catch-all, a body missing a field is rejected, otherwise the
\* first progress event is emitted and transcribeAudio is called.
ParseBody ==
    /\ pcPOST = "parse"
    /\ ConsumerKeepsUp
    /\ IF ~body.json
       THEN /\ Resume(<<ThrowOp(body.jsonError)>>, FALSE, "transcribe")
            /\ UNCHANGED transcribeCalls
       ELSE IF MissingInput(body)
       THEN /\ Resume(<<EnqueueOp(ErrorEvent("Missing audio or frames data")), CloseOp>>,
                      TRUE, "transcribe")
            /\ UNCHANGED transcribeCalls
       ELSE /\ Resume(<<EnqueueOp(ProgressEvent("Transcribing audio...", 0, 0))>>,
                      FALSE, "transcribe")
            /\ transcribeCalls' = IF pcPOST' = "transcribe"
                                  THEN transcribeCalls + 1 ELSE transcribeCalls
    /\ UNCHANGED <<body, transcription, slides, i, transcribeFailure, classifyCalls,
                   classifyResults, cancelInfo, clientVars>>

\* transcribeAudio returns (route.ts:91-101, and 111-117 when there is no
\* frame to classify).
TranscribeReturns ==
    /\ pcPOST = "transcribe"
    /\ ConsumerKeepsUp
    /\ \E outcome \in TranscriptionOutcomes :
          /\ transcription' = transcribeAudio(body.audio.value, outcome)
          /\ transcribeFailure' = TranscribeError(body.audio.value, outcome)
    /\ slides' = <<>>
    /\ i' = 0
    /\ Resume(<<EnqueueOp(ProgressEvent("Analyzing frames for slides...", 0, 0))>>
              \o LoopOps(body, 0, transcription', <<>>),
              LoopEnds(body, 0), "classify")
    /\ classifyCalls' = IF pcPOST' = "classify" THEN Append(classifyCalls, 0)
                        ELSE classifyCalls
    /\ UNCHANGED <<body, transcribeCalls, classifyResults, cancelInfo, clientVars>>

\* analyzeFrame returns for frame i (route.ts:101-109, then the loop test
\* and either the next frame's progress event and call or 111-117).
ClassifyReturns ==
    /\ pcPOST = "classify"
    /\ ConsumerKeepsUp
    /\ \E outcome \in ClassifierOutcomesAt(i) :
          LET frame == body.frames.items[i + 1]
              isSlide == analyzeFrame(frame.dataUrl, outcome)
          IN  /\ slides' = IF isSlide THEN Append(slides, SlideOf(frame)) ELSE slides
              /\ classifyResults' = Append(classifyResults,
                     [index |-> i, isSlide |-> isSlide, failed |-> ~outcome.ok])
    /\ i' = i + 1
    /\ Resume(LoopOps(body, i', transcription, slides'), LoopEnds(body, i'), "classify")
    /\ classifyCalls' = IF pcPOST' = "classify" THEN Append(classifyCalls, i')
                        ELSE classifyCalls
    /\ UNCHANGED <<body, transcription, transcribeCalls, transcribeFailure, cancelInfo,
                   clientVars>>

\* The consumer of the response body (route.ts:131) reads: it takes the
\* head of the queue, which closes a stream whose close was requested once
\* the queue is empty, or waits with a pending read request.
ReaderRead ==
    /\ pcPOST # "idle"
    /\ controller.state = "readable"
    /\ ~controller.readPending
    /\ controller' =
          IF controller.queue # <<>>
          THEN [controller EXCEPT
                  !.delivered = Append(@, Head(controller.queue)),
                  !.queue = Tail(@),
                  !.state = IF controller.closeRequested /\ Tail(controller.queue) = <<>>
                            THEN "closed" ELSE @]
          ELSE [controller EXCEPT !.readPending = TRUE]
    /\ UNCHANGED <<pcPOST, body, emitted, closeCalls, startRejected, transcription,
                   slides, i, transcribeCalls, transcribeFailure, classifyCalls,
                   classifyResults, cancelInfo, clientVars>>

\* The caller disconnects: the consumer of the response body cancels the
\* stream (route.ts:78-131).
Cancel ==
    /\ pcPOST # "idle"
    /\ controller.state = "readable"
    /\ controller' = StreamCancel(controller)
    /\ cancelInfo' = [stage |-> pcPOST, calls |-> Len(classifyCalls)]
    /\ UNCHANGED <<pcPOST, body, emitted, closeCalls, startRejected, transcription,
                   slides, i, transcribeCalls, transcribeFailure, classifyCalls,
                   classifyResults, clientVars>>

\* ------------------------------------------------------------ the client
\* The decoders: the extractor plays an element of its own (page.tsx:29), the
\* sampler seeks the page's hidden element or, before that is mounted, an
\* element of its own (page.tsx:84).
ExtractorVideo == "created by extractAudioFromVideo"
SamplerVideos == {"videoRef.current", "created by extractFramesFromVideo"}

\* Media times are counted in ticks of 1/TicksPerSecond second.
IntervalTicks == captureInterval * TicksPerSecond

\* Math.floor of a media time, in seconds (page.tsx:120).
Floor(t) == t \div TicksPerSecond

\* The durations of the videos chosen: just below, at and just above a
\* multiple of the capture interval, for short videos and for videos at and
\* over FrameCap frames, and the Infinity of a file without duration metadata.
ShortTicks ==
    {t \in 0..(MaxFewFrames * IntervalTicks + 1) :
        \E k \in 0..MaxFewFrames : t \in {k * IntervalTicks - 1, k * IntervalTicks,
                                          k * IntervalTicks + 1}}
LongTicks ==
    {FrameCap * IntervalTicks, FrameCap * IntervalTicks + 1,
     (FrameCap + OverFrames - 1) * IntervalTicks + 1}
Durations ==
    {[finite |-> TRUE, ticks |-> t] : t \in ShortTicks \cup LongTicks}
    \cup {[finite |-> FALSE, ticks |-> 0]}

\* A sampler that never reaches the end of the video is followed for this
\* many frames.
SampleBudget == FrameCap + OverFrames + 1

\* An end test that lets a target equal to the duration through.
AtOrPastStrict(t, d) == d.finite /\ t > d.ticks

\* page.tsx:106   currentTime >= video.duration
AtOrPast(t, d) == d.finite /\ t >= d.ticks

\* page.tsx:195   err.message || 'An error occurred'
ErrMessage(m) == IF m = "" THEN "An error occurred" ELSE m

\* mediaRecorder.stop() (page.tsx:62, 68) on a recorder in state st: a
\* recording recorder stops; on an inactive one the call returns without
\* effect or raises InvalidStateError, depending on the browser.
StopOutcomes(st) ==
    IF st = "recording" THEN {"stopped"} ELSE {"noop", "InvalidStateError"}

\* A stop whose events fire while the recorder goes on recording.
RecorderStopKeepsRecording(outcome) ==
    /\ stopCalls' = stopCalls + 1
    /\ stopEffects' = IF outcome = "stopped" THEN stopEffects + 1 ELSE stopEffects
    /\ stopErrors' = IF outcome = "InvalidStateError" THEN stopErrors + 1 ELSE stopErrors
    /\ recorderState' = recorderState
    /\ stopQueued' = IF outcome = "stopped" THEN TRUE ELSE stopQueued

\* The effect of one call of mediaRecorder.stop() with the given outcome.
RecorderStop(outcome) ==
    /\ stopCalls' = stopCalls + 1
    /\ stopEffects' = IF outcome = "stopped" THEN stopEffects + 1 ELSE stopEffects
    /\ stopErrors' = IF outcome = "InvalidStateError" THEN stopErrors + 1 ELSE stopErrors
    /\ recorderState' = IF outcome = "stopped" THEN "inactive" ELSE recorderState
    /\ stopQueued' = IF outcome = "stopped" THEN TRUE ELSE stopQueued

\* An error handler that resolves the promise with what it has.
ResolvedOnError(promise) == IF promise = "pending" THEN "resolved" ELSE promise

\* reject(reason) of a promise: the first settlement wins.
Rejected(promise) == IF promise = "pending" THEN "rejected" ELSE promise
Resolved(promise) == IF promise = "pending" THEN "resolved" ELSE promise
ReasonAfter(promise, old, new) == IF promise = "pending" THEN new ELSE old

\* handleSubmit up to the await of extractAudioFromVideo (page.tsx:135-145),
\* with the executor of page.tsx:28-35: new AudioContext() may throw, which
\* rejects the promise.
Submit ==
    /\ pcSubmit = "idle"
    /\ pcPOST = "idle"
    /\ \E d \in Durations : duration' = d
    /\ processing' = TRUE
    /\ error' = ""
    /\ pcSubmit' = "audio"
    /\ \E contextOk \in BOOLEAN :
          IF contextOk
          THEN audioPromise' = "pending" /\ pcAudio' = "loading" /\ UNCHANGED reason
          ELSE /\ audioPromise' = "rejected"
               /\ pcAudio' = "failed"
               /\ reason' = "AudioContext is not supported"
    /\ UNCHANGED <<recorderState, audioVideo, endedQueued, timerArmed, stopQueued,
                   readerBusy, stopCalls, stopEffects, stopErrors, payloads,
                   framesPromise, samplerVars, serverVars, readerVars>>

\* video.onloadedmetadata of the extractor (page.tsx:36-59): the recorder is
\* built and started and video.play() is awaited, or a step of it throws and
\* the catch of page.tsx:72 rejects.
AudioLoadedMetadata ==
    /\ pcAudio = "loading"
    /\ \E recorderOk \in BOOLEAN :
          IF recorderOk
          THEN /\ recorderState' = "recording"
               /\ pcAudio' = "starting"
               /\ UNCHANGED <<audioPromise, reason>>
          ELSE /\ pcAudio' = "failed"
               /\ audioPromise' = Rejected(audioPromise)
               /\ reason' = ReasonAfter(audioPromise, reason, "MediaRecorder is not defined")
               /\ UNCHANGED recorderState
    /\ UNCHANGED <<pcSubmit, processing, error, duration, audioVideo, endedQueued,
                   timerArmed, stopQueued, readerBusy, stopCalls, stopEffects,
                   stopErrors, payloads, framesPromise, samplerVars, serverVars, readerVars>>

\* video.onerror of the extractor (page.tsx:77): reject with the event, which
\* has no message.
AudioVideoError ==
    /\ \/ pcAudio = "loading"
       \/ pcAudio \in {"starting", "armed"} /\ audioVideo \in {"idle", "playing"}
    /\ audioVideo' = "error"
    /\ pcAudio' = IF pcAudio = "armed" THEN "armed" ELSE "failed"
    /\ audioPromise' = Rejected(audioPromise)
    /\ reason' = ReasonAfter(audioPromise, reason, "")
    /\ UNCHANGED <<pcSubmit, processing, error, duration, recorderState, endedQueued,
                   timerArmed, stopQueued, readerBusy, stopCalls, stopEffects,
                   stopErrors, payloads, framesPromise, samplerVars, serverVars, readerVars>>

\* await video.play() settles (page.tsx:59-71): fulfilled, the ended handler
\* is installed and the timeout is set; rejected, the catch rejects.
PlaySettles ==
    /\ pcAudio = "starting"
    /\ \E played \in BOOLEAN :
          IF played
          THEN /\ pcAudio' = "armed"
               /\ audioVideo' = "playing"
               /\ timerArmed' = TRUE
               /\ UNCHANGED <<audioPromise, reason>>
          ELSE /\ pcAudio' = "failed"
               /\ audioPromise' = Rejected(audioPromise)
               /\ reason' = ReasonAfter(audioPromise, reason, "play() failed")
               /\ UNCHANGED <<audioVideo, timerArmed>>
    /\ UNCHANGED <<pcSubmit, processing, error, duration, recorderState, endedQueued,
                   stopQueued, readerBusy, stopCalls, stopEffects, stopErrors,
                   payloads, framesPromise, samplerVars, serverVars, readerVars>>

\* Playback reaches the end of the video: the element queues its ended event.
PlaybackEnds ==
    /\ pcAudio = "armed"
    /\ audioVideo = "playing"
    /\ audioVideo' = "ended"
    /\ endedQueued' = TRUE
    /\ UNCHANGED <<pcSubmit, processing, error, duration, audioPromise, reason, pcAudio,
                   recorderState, timerArmed, stopQueued, readerBusy, stopCalls,
                   stopEffects, stopErrors, payloads, framesPromise, samplerVars,
                   serverVars, readerVars>>

\* video.onended (page.tsx:61-63): stop the recorder, whatever its state.
EndedHandler ==
    /\ endedQueued
    /\ endedQueued' = FALSE
    /\ \E outcome \in StopOutcomes(recorderState) : RecorderStop(outcome)
    /\ UNCHANGED <<pcSubmit, processing, error, duration, audioPromise, reason, pcAudio,
                   audioVideo, timerArmed, readerBusy, payloads, framesPromise,
                   samplerVars, serverVars, readerVars>>

\* The timeout of page.tsx:66-71: stop a recorder that is still recording and
\* pause the video.
TimeoutHandler ==
    /\ timerArmed
    /\ timerArmed' = FALSE
    /\ IF recorderState = "recording"
       THEN /\ \E outcome \in StopOutcomes(recorderState) : RecorderStop(outcome)
            /\ audioVideo' = IF audioVideo = "playing" THEN "paused" ELSE audioVideo
       ELSE UNCHANGED <<stopCalls, stopEffects, stopErrors, recorderState, stopQueued,
                        audioVideo>>
    /\ UNCHANGED <<pcSubmit, processing, error, duration, audioPromise, reason, pcAudio,
                   endedQueued, readerBusy, payloads, framesPromise, samplerVars,
                   serverVars, readerVars>>

\* The recorder's dataavailable and stop events (page.tsx:46-56): the blob is
\* handed to a FileReader.
RecorderStopEvent ==
    /\ stopQueued
    /\ stopQueued' = FALSE
    /\ readerBusy' = TRUE
    /\ UNCHANGED <<pcSubmit, processing, error, duration, audioPromise, reason, pcAudio,
                   recorderState, audioVideo, endedQueued, timerArmed, stopCalls,
                   stopEffects, stopErrors, payloads, framesPromise, samplerVars,
                   serverVars, readerVars>>

\* The FileReader finishes (page.tsx:53-54): onloadend resolves with the data
\* URL, onerror rejects.
ReaderSettles ==
    /\ readerBusy
    /\ readerBusy' = FALSE
    /\ \E loaded \in BOOLEAN :
          IF loaded
          THEN /\ audioPromise' = Resolved(audioPromise)
               /\ payloads' = payloads + 1
               /\ UNCHANGED reason
          ELSE /\ audioPromise' = Rejected(audioPromise)
               /\ reason' = ReasonAfter(audioPromise, reason, "")
               /\ UNCHANGED payloads
    /\ UNCHANGED <<pcSubmit, processing, error, duration, pcAudio, recorderState,
                   audioVideo, endedQueued, timerArmed, stopQueued, stopCalls,
                   stopEffects, stopErrors, framesPromise, samplerVars, serverVars, readerVars>>

\* captureFrame (page.tsx:105-113) with currentTime = t: resolve with the
\* frames at or past the duration, otherwise seek to t.
CaptureFrame(t) ==
    IF AtOrPast(t, duration)
    THEN /\ framesPromise' = Resolved(framesPromise)
         /\ pcFrames' = "resolved"
         /\ UNCHANGED seeks
    ELSE /\ seeks' = Append(seeks, t)
         /\ pcFrames' = "seeking"
         /\ UNCHANGED framesPromise

\* An advance by one tick instead of the interval.
NextTimeOneTick(t) == t + 1

\* page.tsx:124   currentTime += captureInterval
NextTime(t) == t + IntervalTicks

\* handleSubmit resumes after the await of page.tsx:145: with the audio it
\* calls extractFramesFromVideo, whose executor (page.tsx:83-96) rejects
\* without a canvas context; with a rejection it runs the catch and the
\* finally of page.tsx:194-198.
AudioSettled ==
    /\ pcSubmit = "audio"
    /\ audioPromise \in {"resolved", "rejected"}
    /\ IF audioPromise = "resolved"
       THEN /\ pcSubmit' = "frames"
            /\ \E canvasOk \in BOOLEAN :
                  IF canvasOk
                  THEN /\ framesPromise' = "pending"
                       /\ pcFrames' = "loading"
                       /\ UNCHANGED reason
                  ELSE /\ framesPromise' = "rejected"
                       /\ pcFrames' = "failed"
                       /\ reason' = "Canvas not supported"
            /\ UNCHANGED <<processing, error>>
       ELSE /\ pcSubmit' = "finished"
            /\ error' = ErrMessage(reason)
            /\ processing' = FALSE
            /\ UNCHANGED <<framesPromise, pcFrames, reason>>
    /\ UNCHANGED <<duration, audioPromise, audioVars, currentTime, frames, seeks,
                   serverVars, readerVars>>

\* video.onloadedmetadata of the sampler (page.tsx:99-128).
FramesLoadedMetadata ==
    /\ pcFrames = "loading"
    /\ currentTime' = 0
    /\ CaptureFrame(0)
    /\ UNCHANGED <<pcSubmit, processing, error, duration, audioPromise, reason, audioVars,
                   frames, serverVars, readerVars>>

\* video.onseeked of the sampler (page.tsx:115-126).
SeekCompleted ==
    /\ pcFrames = "seeking"
    /\ Len(frames) < SampleBudget
    /\ frames' = Append(frames, [timestamp |-> Floor(currentTime), dataUrl |-> currentTime])
    /\ currentTime' = NextTime(currentTime)
    /\ CaptureFrame(currentTime')
    /\ UNCHANGED <<pcSubmit, processing, error, duration, audioPromise, reason, audioVars,
                   serverVars, readerVars>>

\* video.onerror of the sampler (page.tsx:131).
SamplerVideoError ==
    /\ pcFrames \in {"loading", "seeking"}
    /\ pcFrames' = "failed"
    /\ framesPromise' = Rejected(framesPromise)
    /\ reason' = ReasonAfter(framesPromise, reason, "")
    /\ UNCHANGED <<pcSubmit, processing, error, duration, audioPromise, audioVars,
                   currentTime, frames, seeks, serverVars, readerVars>>

\* handleSubmit resumes after the await of page.tsx:148: with the frames it
\* posts the payload (page.tsx:152-161), with a rejection it runs the catch
\* and the finally.
FramesSettled ==
    /\ pcSubmit = "frames"
    /\ framesPromise \in {"resolved", "rejected"}
    /\ IF framesPromise = "resolved"
       THEN /\ pcSubmit' = "fetch"
            /\ Post([json |-> TRUE, jsonError |-> "",
                     audio |-> [present |-> TRUE, value |-> AudioUrl],
                     frames |-> [present |-> TRUE, items |-> frames], nullAt |-> 0])
            /\ UNCHANGED <<processing, error>>
       ELSE /\ pcSubmit' = "finished"
            /\ error' = ErrMessage(reason)
            /\ processing' = FALSE
            /\ UNCHANGED serverVars
    /\ UNCHANGED <<duration, audioPromise, reason, audioVars, framesPromise, samplerVars,
                   readerVars>>

\* ------------------------------------------------- the client's reader
\* The response body is a sequence of characters. An event is written as
\* data: <json> and two newlines (route.ts:90-117); its JSON text is taken
\* here as an opening brace, one character for the type, one for the message
\* or the data, and a closing brace.
DataPrefix == <<"d", "a", "t", "a", ":", " ">>
Newline == "\n"

WireProgress(message) == [type |-> "progress", value |-> message]
WireComplete(data) == [type |-> "complete", value |-> data]

TypeChar(type) ==
    CASE type = "progress" -> "p" [] type = "complete" -> "c" [] OTHER -> "e"
TypeOfChar(ch) ==
    CASE ch = "p" -> "progress" [] ch = "c" -> "complete" [] OTHER -> "error"

\* JSON.stringify of an event, and the line route.ts enqueues for it.
JsonStringify(ev) == <<"{", TypeChar(ev.type), ev.value, "}">>
EventText(ev) == DataPrefix \o JsonStringify(ev) \o <<Newline, Newline>>

RECURSIVE Encode(_)
Encode(evs) == IF evs = <<>> THEN <<>> ELSE EventText(Head(evs)) \o Encode(Tail(evs))

\* The results a completed run may carry.
Payloads == {"result A", "result B"}

\* The events of a run that completes after classifying m frames
\* (route.ts:90, 93, 99, 111-117).
CompletedStream(m, data) ==
    <<WireProgress("Transcribing audio..."),
      WireProgress("Analyzing frames for slides...")>>
    \o [k \in 1..m |-> WireProgress("Analyzing frame")]
    \o <<WireComplete(data)>>

\* page.tsx:176   chunk.split('\n')
RECURSIVE SplitLines(_, _)
SplitLines(chunk, line) ==
    IF chunk = <<>> THEN <<line>>
    ELSE IF Head(chunk) = Newline
         THEN <<line>> \o SplitLines(Tail(chunk), <<>>)
         ELSE SplitLines(Tail(chunk), Append(line, Head(chunk)))

\* page.tsx:179   line.startsWith('data: ')
StartsWithData(line) ==
    Len(line) >= Len(DataPrefix) /\ SubSeq(line, 1, Len(DataPrefix)) = DataPrefix

\* page.tsx:180   JSON.parse(line.slice(6)): the text of a whole object
\* parses, any other text throws a SyntaxError.
JsonParse(text) ==
    IF Len(text) = 4 /\ text[1] = "{" /\ text[4] = "}" /\ text[2] \in {"p", "c", "e"}
    THEN [ok |-> TRUE, type |-> TypeOfChar(text[2]), value |-> text[3]]
    ELSE [ok |-> FALSE, type |-> "", value |-> "Unexpected end of JSON input"]

\* page.tsx:179-190 for one line, on the states st the loop has reached.
HandleLine(st, line) ==
    IF st.thrown # "" \/ ~StartsWithData(line) THEN st
    ELSE LET data == JsonParse(SubSeq(line, Len(DataPrefix) + 1, Len(line)))
         IN  IF ~data.ok THEN [st EXCEPT !.thrown = data.value]
             ELSE CASE data.type = "progress" -> [st EXCEPT !.progress = data.value]
                    [] data.type = "complete" ->
                         [st EXCEPT !.result = <<data.value>>, !.progress = "Complete!"]
                    [] OTHER -> [st EXCEPT !.error = data.value]

\* page.tsx:178   for (const line of lines)
RECURSIVE HandleLines(_, _)
HandleLines(st, lines) ==
    IF lines = <<>> THEN st ELSE HandleLines(HandleLine(st, Head(lines)), Tail(lines))

\* The chunk sizes the transport may deliver.
ChunkSizes == 1..Len(wire)

\* handleSubmit from its start to the response of fetch (page.tsx:135-168),
\* for a run the coordinator completes: the body to read is the text of the
\* run's events.
ResponseArrives ==
    /\ pcSubmit = "idle"
    /\ pcPOST = "idle"
    /\ \E m \in 0..MaxStreamFrames, data \in Payloads :
          /\ sent' = CompletedStream(m, data)
          /\ wire' = Encode(sent')
    /\ pcSubmit' = "reading"
    /\ processing' = TRUE
    /\ error' = ""
    /\ result' = <<>>
    /\ progress' = "Sending to server for AI processing..."
    /\ UNCHANGED <<reason, duration, audioPromise, audioVars, framesPromise, samplerVars,
                   serverVars>>

\* reader.read() returns a chunk (page.tsx:172-192): its lines are handled in
\* order, and an exception of JSON.parse ends the loop in the catch and the
\* finally of page.tsx:194-198.
ReadChunk ==
    /\ pcSubmit = "reading"
    /\ wire # <<>>
    /\ \E n \in ChunkSizes :
          LET chunk == SubSeq(wire, 1, n)
              st == HandleLines([result |-> result, progress |-> progress,
                                 error |-> error, thrown |-> ""],
                                SplitLines(chunk, <<>>))
          IN  /\ wire' = SubSeq(wire, n + 1, Len(wire))
              /\ result' = st.result
              /\ progress' = st.progress
              /\ IF st.thrown # ""
                 THEN /\ error' = ErrMessage(st.thrown)
                      /\ processing' = FALSE
                      /\ pcSubmit' = "finished"
                 ELSE /\ error' = st.error
                      /\ UNCHANGED <<processing, pcSubmit>>
    /\ UNCHANGED <<sent, reason, duration, audioPromise, audioVars, framesPromise,
                   samplerVars, serverVars>>

\* reader.read() returns done (page.tsx:173), then the finally of
\* page.tsx:196-198.
ReadDone ==
    /\ pcSubmit = "reading"
    /\ wire = <<>>
    /\ pcSubmit' = "finished"
    /\ processing' = FALSE
    /\ UNCHANGED <<error, reason, duration, audioPromise, audioVars, framesPromise,
                   samplerVars, serverVars, readerVars>>

Init ==
    /\ pcPOST = "idle"
    /\ body = [json |-> FALSE, jsonError |-> "", audio |-> [present |-> FALSE, value |-> ""],
               frames |-> NoFrames, nullAt |-> 0]
    /\ controller = NewStream
    /\ emitted = <<>>
    /\ closeCalls = 0
    /\ startRejected = FALSE
    /\ transcription = <<>>
    /\ slides = <<>>
    /\ i = 0
    /\ transcribeCalls = 0
    /\ transcribeFailure = <<>>
    /\ classifyCalls = <<>>
    /\ classifyResults = <<>>
    /\ cancelInfo = [stage |-> "none", calls |-> 0]
    /\ pcSubmit = "idle"
    /\ processing = FALSE
    /\ error = ""
    /\ reason = ""
    /\ duration = [finite |-> TRUE, ticks |-> 0]
    /\ audioPromise = "none"
    /\ pcAudio = "none"
    /\ recorderState = "none"
    /\ audioVideo = "idle"
    /\ endedQueued = FALSE
    /\ timerArmed = FALSE
    /\ stopQueued = FALSE
    /\ readerBusy = FALSE
    /\ stopCalls = 0
    /\ stopEffects = 0
    /\ stopErrors = 0
    /\ payloads = 0
    /\ framesPromise = "none"
    /\ pcFrames = "none"
    /\ currentTime = 0
    /\ frames = <<>>
    /\ seeks = <<>>
    /\ sent = <<>>
    /\ wire = <<>>
    /\ result = <<>>
    /\ progress = ""

Next ==
    \/ DirectPost
    \/ ParseBody
    \/ TranscribeReturns
    \/ ClassifyReturns
    \/ ReaderRead

\* The coordinator serving one posted body.
Spec == Init /\ [][Next]_vars

\* The coordinator serving one posted body to a caller that may disconnect.
NextCancel == Next \/ Cancel
SpecCancel == Init /\ [][NextCancel]_vars

NextClient ==
    \/ Submit
    \/ AudioLoadedMetadata
    \/ AudioVideoError
    \/ PlaySettles
    \/ PlaybackEnds
    \/ EndedHandler
    \/ TimeoutHandler
    \/ RecorderStopEvent
    \/ ReaderSettles
    \/ AudioSettled
    \/ FramesLoadedMetadata
    \/ SeekCompleted
    \/ SamplerVideoError
    \/ FramesSettled

\* The client page decomposing one video, up to the post of its payload.
SpecClient == Init /\ [][NextClient]_vars

NextReader ==
    \/ ResponseArrives
    \/ ReadChunk
    \/ ReadDone

\* handleSubmit reading the body of a completed run, chunked in any way.
SpecReader == Init /\ [][NextReader]_vars

\* ----------------------------------------------------------------- claims
Terminal(ev) == ev.type \in {"complete", "error"}
TerminalCount == Cardinality({k \in 1..Len(emitted) : Terminal(emitted[k])})
LastEmitted == emitted[Len(emitted)]
Completed == pcPOST = "done" /\ emitted # <<>> /\ LastEmitted.type = "complete"
SubmittedCount == Len(body.frames.items)
WellFormedFrames == body.nullAt = 0

\* C1: the events a run emits are progress events followed by exactly one
\* terminal event, complete or error: never two terminal events, nothing
\* after the terminal event, and a run that has ended has emitted one.
C1_OneTerminalEvent ==
    /\ \A k \in 1..Len(emitted) : emitted[k].type \in {"progress", "complete", "error"}
    /\ TerminalCount <= 1
    /\ \A k \in 1..Len(emitted) : Terminal(emitted[k]) => k = Len(emitted)
    /\ pcPOST = "done" => TerminalCount = 1
    /\ pcPOST # "done" => TerminalCount = 0

\* A run that emitted progress events and then ended with an error event.
C1_Witness ==
    /\ pcPOST = "done"
    /\ Len(emitted) >= 3
    /\ LastEmitted.type = "error"

StreamOpen == controller.state = "readable" /\ ~controller.closeRequested

\* C2: a run that has ended, on whichever exit path, has left its stream
\* no longer open, and a run that has not ended can always take a further
\* step when its awaited call returns or its consumer reads.
C2_StreamClosedOnExit ==
    /\ pcPOST = "done" => ~StreamOpen
    /\ pcPOST \in {"parse", "transcribe", "classify"} =>
          ENABLED (ParseBody \/ TranscribeReturns \/ ClassifyReturns \/ ReaderRead)

\* A run that ended through the catch-all with its stream closed.
C2_Witness ==
    /\ pcPOST = "done"
    /\ ~body.json
    /\ closeCalls = 1
    /\ controller.state = "closed"

\* C3: a request without the audio payload or without the frame list emits
\* exactly one error event and nothing else, and neither adapter is called.
C3_MissingInputRejected ==
    (/\ pcPOST \in {"transcribe", "classify", "done"}
     /\ body.json
     /\ (~body.audio.present \/ body.audio.value = "" \/ ~body.frames.present)) =>
        /\ pcPOST = "done"
        /\ Len(emitted) = 1
        /\ emitted[1].type = "error"
        /\ transcribeCalls = 0
        /\ classifyCalls = <<>>

\* A run rejected for its missing frame list.
C3_Witness ==
    /\ pcPOST = "done"
    /\ body.json
    /\ Truthy(body.audio)
    /\ ~body.frames.present
    /\ Len(emitted) = 1

\* The slides of the frames 1..k the classifier accepted, in frame order.
RECURSIVE AcceptedSlides(_)
AcceptedSlides(k) ==
    IF k = 0 THEN <<>>
    ELSE LET f == body.frames.items[k]
             rest == AcceptedSlides(k - 1)
         IN  IF classifyResults[k].isSlide
             THEN Append(rest, [image |-> f.dataUrl, timestamp |-> f.timestamp])
             ELSE rest

\* C4: the complete event carries the frames among the first min(n, 20) that
\* the classifier accepted, in submission order, each with its own image and
\* timestamp, and the transcript the Transcription Adapter returned.
C4_ResultIsAcceptedFrames ==
    Completed =>
        /\ Len(classifyResults) = Min(SubmittedCount, FrameCap)
        /\ \A k \in 1..Len(classifyResults) : classifyResults[k].index = k - 1
        /\ LastEmitted.data.slides = AcceptedSlides(Min(SubmittedCount, FrameCap))
        /\ LastEmitted.data.transcription = transcription

\* Three frames at 0, 5, 10 with verdicts yes, no, yes: slides at 0 and 10.
C4_Witness ==
    /\ Completed
    /\ SubmittedCount = 3
    /\ Len(LastEmitted.data.slides) = 2
    /\ LastEmitted.data.slides[1].timestamp = 0
    /\ LastEmitted.data.slides[2].timestamp = 2 * captureInterval

\* C5: no frame at index 20 or higher is passed to the classifier or becomes
\* a slide, and a completed run has called the classifier min(n, 20) times.
C5_CapOnClassifierCalls ==
    /\ \A k \in 1..Len(classifyCalls) : classifyCalls[k] = k - 1 /\ classifyCalls[k] < FrameCap
    /\ \A k \in 1..Len(slides) :
          \E j \in 1..Min(SubmittedCount, FrameCap) :
              slides[k].image = body.frames.items[j].dataUrl
    /\ Completed => Len(classifyCalls) = Min(SubmittedCount, FrameCap)

\* A completed run over more than 20 frames with 20 classifier calls, the last
\* of which accepted its frame.
C5_Witness ==
    /\ Completed
    /\ SubmittedCount = FrameCap + OverFrames
    /\ Len(classifyCalls) = FrameCap
    /\ classifyResults[FrameCap].isSlide

\* C6: when the speech-to-text call fails, the run (over well-formed frames)
\* still classifies its frames and ends with a complete event whose
\* transcript is the sentinel naming the reason of the failure.
C6_TranscriptionFailureDegrades ==
    (pcPOST = "done" /\ transcribeFailure # <<>> /\ WellFormedFrames) =>
        /\ Completed
        /\ LastEmitted.data.transcription =
              <<"[Transcription unavailable: ", transcribeFailure[1], "]">>
        /\ Len(classifyResults) = Min(SubmittedCount, FrameCap)

\* A completed run whose transcription failed and which found a slide.
C6_Witness ==
    /\ Completed
    /\ transcribeFailure = <<"Connection error.">>
    /\ Len(LastEmitted.data.slides) >= 1

\* C7: a frame whose classification call failed is not a slide, and the run
\* (over well-formed frames) goes on to classify every later frame below the
\* cap and ends with a complete event.
C7_ClassifierFailureIsReject ==
    /\ \A k \in 1..Len(classifyResults) :
          classifyResults[k].failed =>
              /\ ~classifyResults[k].isSlide
              /\ \A m \in 1..Len(slides) :
                    slides[m].image # body.frames.items[k].dataUrl
    /\ (pcPOST = "done" /\ WellFormedFrames /\ classifyResults # <<>>) =>
          /\ Completed
          /\ Len(classifyResults) = Min(SubmittedCount, FrameCap)

\* A completed run in which a call failed and the next frame was accepted.
C7_Witness ==
    /\ Completed
    /\ \E k \in 1..(Len(classifyResults) - 1) :
          classifyResults[k].failed /\ classifyResults[k + 1].isSlide

\* C8: the recorder is stopped at most once and no call of stop raises an
\* error, in whichever order the ended handler and the timeout handler run.
C8_StopIsIdempotent ==
    /\ stopEffects <= 1
    /\ stopErrors = 0

\* C9: when the Audio Extractor has failed, the Frame Sampler has still been
\* run by the time handleSubmit finishes.
C9_SamplerRunsWithoutAudio ==
    (pcSubmit = "finished" /\ audioPromise = "rejected") => pcFrames # "none"

\* C10: at every point of the sampling the frames' timestamps start at 0,
\* advance by the capture interval, strictly increase and do not exceed the
\* duration of the video.
C10_TimestampsOrdered ==
    \A k \in 1..Len(frames) :
        /\ frames[k].timestamp = captureInterval * (k - 1)
        /\ k > 1 => frames[k].timestamp > frames[k - 1].timestamp
        /\ duration.finite => frames[k].timestamp * TicksPerSecond <= duration.ticks

\* The sampler resolved with three frames of a video whose duration is not a
\* multiple of the interval.
C10_Witness ==
    /\ framesPromise = "resolved"
    /\ Len(frames) = 3
    /\ duration.ticks = 2 * IntervalTicks + 1

\* C11: once the consumer has cancelled the stream, the coordinator starts no
\* further classifier call: a run cancelled before its end meets the broken
\* sink at its next enqueue, which throws and ends the run with the remaining
\* frames unclassified.
C11_NoClassifierCallAfterCancel ==
    cancelInfo.stage # "none" =>
        /\ Len(classifyCalls) = cancelInfo.calls
        /\ (cancelInfo.stage # "done" /\ pcPOST = "done") => startRejected

\* A run cancelled while classifying its second frame of more than twenty,
\* ended with the later frames never passed to the classifier.
C11_Witness ==
    /\ cancelInfo = [stage |-> "classify", calls |-> 2]
    /\ pcPOST = "done"
    /\ SubmittedCount > FrameCap
    /\ Len(classifyCalls) = 2

FrameProgress(m) == [k \in 1..m |-> ProgressEvent("Analyzing frame", k, m)]

\* C13 as stated: a completed run over n submitted frames has emitted one
\* progress event for transcription, one per classified frame and the
\* complete event, min(n, 20) + 2 events in all, and no other.
C13_OneEventPerStep ==
    Completed => Len(emitted) = Min(SubmittedCount, FrameCap) + 2

\* C13 amended: a completed run over n submitted frames has emitted, in this
\* order, the progress event of the transcription step, one progress event
\* announcing the frame-analysis stage, one progress event per classified
\* frame (min(n, 20) of them) and the complete event, and no other.
C13_EventsOfCompletedRun ==
    Completed =>
        LET m == Min(SubmittedCount, FrameCap)
        IN  /\ Len(emitted) = m + 3
            /\ SubSeq(emitted, 1, m + 2) =
                   <<ProgressEvent("Transcribing audio...", 0, 0),
                     ProgressEvent("Analyzing frames for slides...", 0, 0)>>
                   \o FrameProgress(m)
            /\ emitted[m + 3].type = "complete"

\* A run over more than twenty frames has completed.
C13_Witness == Completed /\ SubmittedCount > FrameCap /\ Len(emitted) = FrameCap + 3

\* The submitted frames a slide was made from.
SlideSources(sl) ==
    {k \in 1..SubmittedCount :
        /\ body.frames.items[k].dataUrl = sl.image
        /\ body.frames.items[k].timestamp = sl.timestamp}
SlidePos(sl) == CHOOSE k \in SlideSources(sl) : TRUE

\* The accumulator is a subsequence, in the same relative order, of the
\* frames classified so far, none of them beyond the first min(n, 20).
SlidesAreSubsequence ==
    /\ Len(slides) <= Min(SubmittedCount, FrameCap)
    /\ Len(slides) <= Len(classifyResults)
    /\ \A j \in 1..Len(slides) :
          /\ SlideSources(slides[j]) # {}
          /\ SlidePos(slides[j]) <= Min(SubmittedCount, FrameCap)
          /\ SlidePos(slides[j]) <= Len(classifyResults)
          /\ classifyResults[SlidePos(slides[j])].isSlide
    /\ \A j \in 1..(Len(slides) - 1) : SlidePos(slides[j]) < SlidePos(slides[j + 1])

\* The accumulator changes only when the call classifying frame i returns,
\* and then by having that frame appended.
SlidesGrowByAppend ==
    slides' # slides =>
        /\ pcPOST = "classify"
        /\ slides' = Append(slides, [image |-> body.frames.items[i + 1].dataUrl,
                                     timestamp |-> body.frames.items[i + 1].timestamp])

\* C14: at every point of a run the slide accumulator is an order-preserving
\* subsequence of the first min(n, 20) submitted frames, so never longer than
\* min(n, 20), and it only grows by appending the frame being classified.
C14_SlidesOrderedSubsequence == []SlidesAreSubsequence /\ [][SlidesGrowByAppend]_vars

\* A run over more than twenty frames has accepted the first and the
\* twentieth frame and not the second.
C14_Witness ==
    /\ SubmittedCount > FrameCap
    /\ Len(slides) = 2
    /\ slides[1].image = 1
    /\ slides[2].image = FrameCap
    /\ pcPOST = "done"

\* C15: the frame sequence the sampler accumulates, and the one the client
\* submits to the coordinator, never holds more than 20 frames.
C15_FrameSequenceCapped ==
    /\ Len(frames) <= FrameCap
    /\ pcSubmit = "fetch" => SubmittedCount <= FrameCap

\* The sampling of a video of finite duration that no decoder error has hit.
SamplingFinite == duration.finite /\ pcFrames \in {"seeking", "resolved"}

\* The number of capture times 0, 5, 10, ... below the duration.
TimesBelowDuration == (duration.ticks + IntervalTicks - 1) \div IntervalTicks

\* What C16 says of a state: the seeks issued are to 0, 5, 10, ... and all
\* below the duration; one frame was captured per completed seek, at the time
\* sought; a waiting sampler continues when its seek completes; and the
\* sampler has stopped with every frame below the duration, none at all for
\* duration 0, at the first target at or past the duration.
SamplerState ==
    SamplingFinite =>
        /\ \A k \in 1..Len(seeks) :
              seeks[k] = (k - 1) * IntervalTicks /\ seeks[k] < duration.ticks
        /\ Len(seeks) = Len(frames) + (IF pcFrames = "seeking" THEN 1 ELSE 0)
        /\ \A k \in 1..Len(frames) : frames[k].dataUrl = seeks[k]
        /\ pcFrames = "seeking" =>
              /\ currentTime = seeks[Len(seeks)]
              /\ framesPromise = "pending"
              /\ ENABLED SeekCompleted
        /\ pcFrames = "resolved" =>
              /\ framesPromise = "resolved"
              /\ Len(frames) = TimesBelowDuration
              /\ currentTime >= duration.ticks
              /\ currentTime = TimesBelowDuration * IntervalTicks
              /\ duration.ticks = 0 => frames = <<>>

\* What C16 says of a step: each completed seek brings the sampler nearer to
\* the duration or stops it, and a stopped sampler issues no further seek.
SamplerStep ==
    /\ (SamplingFinite /\ pcFrames = "seeking" /\ pcFrames' = "seeking" /\ seeks' # seeks)
          => duration.ticks - currentTime' < duration.ticks - currentTime
    /\ pcFrames = "resolved" => (pcFrames' = "resolved" /\ seeks' = seeks /\ frames' = frames)

\* C16: for a video of finite duration whose seeks complete and whose decoder
\* reports no error, the sampler terminates: it stops at the first target time
\* at or past the duration and returns the frames accumulated (none when the
\* duration is 0), one frame per completed seek, and never seeks to a time at
\* or past the duration.
C16_SamplerTerminates == []SamplerState /\ [][SamplerStep]_vars

\* The sampler has stopped on a video a little longer than one capture
\* interval, with the frames of times 0 and 5.
C16_Witness ==
    /\ pcFrames = "resolved"
    /\ duration = [finite |-> TRUE, ticks |-> IntervalTicks + 1]
    /\ Len(frames) = 2
    /\ seeks = <<0, IntervalTicks>>

\* What C17 says of a state: a sampling that has resolved stopped at the end
\* of the video with the whole sequence, and a sampling that failed has
\* rejected, so that nothing is posted.
SamplerOutcome ==
    /\ framesPromise = "resolved" =>
          /\ pcFrames = "resolved"
          /\ duration.finite
          /\ Len(frames) = TimesBelowDuration
    /\ pcFrames = "failed" =>
          /\ framesPromise = "rejected"
          /\ pcSubmit \in {"frames", "finished"}
          /\ pcPOST = "idle"
          /\ pcSubmit = "finished" => error # "" /\ ~processing

\* What C17 says of a step: a failure is final.
SamplerFailureIsFinal ==
    (framesPromise = "rejected" \/ pcFrames = "failed") =>
        (framesPromise' = "rejected" /\ pcFrames' = "failed")

\* C17: a decoder error during frame sampling fails the whole sampling, with
\* the frames captured before it delivered to nobody: the sampler's outcome is
\* the complete frame sequence or a failure.
C17_NoPartialFrames == []SamplerOutcome /\ [][SamplerFailureIsFinal]_vars

\* The decoder failed after two frames were captured and the submission
\* ended with an error.
C17_Witness ==
    /\ pcFrames = "failed"
    /\ Len(frames) = 2
    /\ pcSubmit = "finished"
    /\ error = "An error occurred"

\* C18: once the recorder has been started, a recorder still recording has a
\* signal ahead that will stop it, and an extractor that has settled has
\* yielded its one AudioPayload: never none, never two.
C18_RecorderStoppedOnePayload ==
    /\ recorderState = "recording" => (pcAudio = "starting" \/ timerArmed)
    /\ payloads <= 1
    /\ (recorderState # "none" /\ audioPromise \in {"resolved", "rejected"}) =>
          (audioPromise = "resolved" /\ payloads = 1)

\* What C19 says of a state: the sampler's decoder is never the extractor's,
\* and the sampler runs only once the extractor has resolved, with the
\* recorder stopped.
NoSeekWhileRecording ==
    /\ ExtractorVideo \notin SamplerVideos
    /\ pcFrames # "none" => audioPromise = "resolved"
    /\ pcFrames \in {"loading", "seeking"} => recorderState = "inactive"

\* What C19 says of a step: a seek is issued only with the recorder stopped.
SeekOnlyWhenStopped == seeks' # seeks => (recorderState = "inactive" /\ recorderState' = "inactive")

\* C19: no seek is issued on a decoder while a recording driven by that
\* decoder is in progress: the extractor and the sampler use separate video
\* elements, and handleSubmit runs the sampler after the extractor.
C19_NoSeekWhileRecording == []NoSeekWhileRecording /\ [][SeekOnlyWhenStopped]_vars

\* The sampler waits for its second seek, the recording long stopped.
C19_Witness ==
    /\ pcFrames = "seeking"
    /\ Len(seeks) = 2
    /\ recorderState = "inactive"
    /\ stopEffects = 1

\* C20: a run that has ended has called close on its stream exactly once,
\* and no call of close was made on a stream the run had already closed.
C20_CloseCalledOnce ==
    pcPOST = "done" => (closeCalls = 1 /\ ~startRejected)

\* C21: however the transport cuts the body of a completed run into chunks,
\* a client that has finished reading it holds the payload of the complete
\* event as its result, has no error set and has cleared its processing flag.
C21_ChunkingIndependent ==
    (pcSubmit = "finished" /\ sent # <<>>) =>
        /\ result = <<sent[Len(sent)].value>>
        /\ error = ""
        /\ ~processing

====
